---- MODULE Spec2Model ----
(***************************************************************************)
(* dns64perf++ : the launcher (src/main.cpp) as a state machine.           *)
(*                                                                         *)
(* main() validates nine positional arguments, builds one DnsTester per    *)
(* thread, runs each tester's start() on its own pinned thread, joins the  *)
(* threads and hands the testers to a DnsTesterAggregator.                 *)
(*                                                                         *)
(* DnsTester and DnsTesterAggregator are declared in dnstester.h, which is *)
(* not among the sources modelled; their behaviour is taken from the       *)
(* specification (sections 3, 4.4 - 4.6), as noted where it is defined.    *)
(*                                                                         *)
(* Numbers.  uint32_t / uint64_t values do not fit TLC's integers, so a    *)
(* machine word is a pair <<hi, lo>> with value hi * 2^16 + lo and         *)
(* 0 <= lo < 2^16.  A uint32_t has hi < 2^16; the uint64_t values the code *)
(* forms (1 << (32 - netmask)) need hi <= 2^16.  All arithmetic below is   *)
(* exact on that representation and wraps where the C++ type wraps.        *)
(***************************************************************************)
EXTENDS Integers, Sequences, FiniteSets, TLC

(***************************************************************************)
(* Bounds of the model.                                                    *)
(***************************************************************************)
\* largest thread count drawn for argv[6] (besides none)
MaxThreads == 3
\* largest request count drawn for argv[4]
MaxReq == 4
\* how many of the argument fields may be unparsable / bad at once
MaxBad == 1

(***************************************************************************)
(* Word arithmetic.                                                        *)
(***************************************************************************)
Limb == 2^16

Word(n) == <<n \div Limb, n % Limb>>

Norm(h, l) == <<h + (l \div Limb), l % Limb>>

WAdd(a, b) == Norm(a[1] + b[1], a[2] + b[2])

WLess(a, b) == a[1] < b[1] \/ (a[1] = b[1] /\ a[2] < b[2])

\* a - b for a >= b
WSub(a, b) ==
  IF a[2] >= b[2] THEN <<a[1] - b[1], a[2] - b[2]>>
                  ELSE <<a[1] - b[1] - 1, a[2] + Limb - b[2]>>

\* conversion to uint32_t: the low 32 bits
Trunc32(a) == <<a[1] % Limb, a[2]>>

\* x * y for 0 <= x, y < 2^16, as a word (no intermediate exceeds 2^25)
MulLimb(x, y) ==
  LET t1 == (x \div 256) * y
      t0 == (x % 256) * y
  IN  Norm((t1 \div 256) + (t0 \div Limb), (t1 % 256) * 256 + (t0 % Limb))

\* uint32_t * uint32_t, wrapping modulo 2^32
Mul32(a, b) ==
  LET ll == MulLimb(a[2], b[2])
      hl == MulLimb(a[1], b[2])
      lh == MulLimb(a[2], b[1])
  IN  <<(ll[1] + hl[2] + lh[2]) % Limb, ll[2]>>

\* the mathematical product a * b of two uint32_t is >= 2^32
MulOverflows(a, b) ==
  LET ll == MulLimb(a[2], b[2])
      hl == MulLimb(a[1], b[2])
      lh == MulLimb(a[2], b[1])
  IN  \/ (a[1] # 0 /\ b[1] # 0)
      \/ hl[1] # 0
      \/ lh[1] # 0
      \/ ll[1] + hl[2] + lh[2] >= Limb

\* a % b for b # 0 (shift and subtract)
RECURSIVE WReduce(_, _, _)
WReduce(a, b, c) ==
  IF WLess(a, b) THEN a
  ELSE LET c2 == WAdd(c, c)
       IN  IF ~WLess(a, c2) THEN WReduce(a, b, c2)
                            ELSE WReduce(WSub(a, c), b, b)

WMod(a, b) == WReduce(a, b, b)

\* (uint64_t)1 << k, 0 <= k <= 32
Shl1(k) == IF k < 16 THEN <<0, 2^k>> ELSE <<2^(k - 16), 0>>

\* bitwise and of two limbs
RECURSIVE And16(_, _)
And16(x, y) ==
  IF x = 0 \/ y = 0 THEN 0
  ELSE (x % 2) * (y % 2) + 2 * And16(x \div 2, y \div 2)

And32(a, b) == <<And16(a[1], b[1]), And16(a[2], b[2])>>

\* the low 32 bits of ~a, for a < 2^32
Not32(a) == <<Limb - 1 - a[1], Limb - 1 - a[2]>>

(***************************************************************************)
(* The argument vector.  A field is [ok, val]: ok says whether the code's  *)
(* conversion (inet_pton, sscanf) succeeds on the token, val is what it    *)
(* stores.  The values drawn are below 2^31.                               *)
(***************************************************************************)
\* a burst size b with 3 * b = 2^32 + 2: the uint32_t product wraps to 2
WrapBurst == ((Limb - 1) \div 3) * Limb + ((Limb - 1) \div 3) + 1

\* A.B.C.D octets of the subnet argument
AddrSamples == { <<255, 255, 255, 254>> }

\* the /N of the subnet argument (%hhu)
NetmaskSamples == {0, 30, 32, 33}

ReqSamples == 0 .. MaxReq

BurstSamples == {0, 1, 2, WrapBurst}

ThreadSamples == 0 .. MaxThreads

\* inter-burst delay in ns
DelaySamples == {5, 1000000}

Good(v) == [ok |-> TRUE, val |-> v]

Bad == [ok |-> FALSE, val |-> 0]

Flag == {Good(0), Bad}

Num(S) == {Good(v) : v \in S} \cup {Bad}

ArgVectors ==
  [ argc    : Flag,
    server  : Flag,
    port    : Flag,
    subnet  : {Good([temp |-> a, netmask |-> n]) :
                  a \in AddrSamples, n \in NetmaskSamples}
              \cup {[ok |-> FALSE, val |-> [temp |-> <<0, 0, 0, 0>>, netmask |-> 0]]},
    req     : Num(ReqSamples),
    burst   : Num(BurstSamples),
    thread  : Num(ThreadSamples),
    nport   : Flag,
    delay   : Num(DelaySamples),
    timeout : Flag ]

Fields ==
  {"argc", "server", "port", "subnet", "req", "burst", "thread", "nport",
   "delay", "timeout"}

BadFields(v) == {f \in Fields : ~v[f].ok}

VARIABLES
  argv,            \* the argument vector (never changes)
  pc,              \* main's position
  status,          \* the value main returned
  diag,            \* the validation diagnostic written to std::cerr
  divByZero,       \* line 110 was evaluated with a zero divisor
  ip, netmask, num_req, num_burst, num_thread, burst_delay,
  reference_time,
  i,               \* the loop variable of the three loops
  testers,         \* std::vector<std::unique_ptr<DnsTester>>
  threads,         \* std::vector<std::thread>
  errlog,          \* the affinity messages written to stderr
  touched,         \* <<t, w>>: thread t operated on tester w
  mainTouched,     \* main read a tester while a thread was not joined
  report,          \* what the aggregator has done, in order
  failure          \* what went wrong outside validation

locals == <<ip, netmask, num_req, num_burst, num_thread, burst_delay>>

run == <<reference_time, i, testers, threads, errlog, touched, mainTouched,
         report, failure>>

vars == <<argv, pc, status, diag, divByZero, locals, run>>

Zero == <<0, 0>>

Init ==
  /\ argv \in {v \in ArgVectors : Cardinality(BadFields(v)) <= MaxBad}
  /\ pc = "argc"
  /\ status = 0
  /\ diag = "none"
  /\ divByZero = FALSE
  /\ ip = Zero /\ netmask = 0 /\ num_req = 0 /\ num_burst = 0
  /\ num_thread = 0 /\ burst_delay = 0
  /\ reference_time = 0
  /\ i = 0
  /\ testers = <<>>
  /\ threads = <<>>
  /\ errlog = <<>>
  /\ touched = {}
  /\ mainTouched = FALSE
  /\ report = <<>>
  /\ failure = "none"

(***************************************************************************)
(* Validation: lines 49 - 135.  Each check either rejects (diagnostic,     *)
(* return -1) or falls through to the next one.                            *)
(***************************************************************************)
Reject(d) ==
  /\ pc' = "exited"
  /\ status' = 0 - 1
  /\ diag' = d

Pass(next) ==
  /\ pc' = next
  /\ UNCHANGED <<status, diag>>

CheckArgc ==
  /\ pc = "argc"
  /\ IF argv.argc.ok THEN Pass("server") ELSE Reject("usage")
  /\ UNCHANGED <<argv, divByZero, locals, run>>

CheckServer ==
  /\ pc = "server"
  /\ IF argv.server.ok THEN Pass("port") ELSE Reject("bad_server")
  /\ UNCHANGED <<argv, divByZero, locals, run>>

CheckPort ==
  /\ pc = "port"
  /\ IF argv.port.ok THEN Pass("subnet") ELSE Reject("bad_port")
  /\ UNCHANGED <<argv, divByZero, locals, run>>

\* (temp[0] << 24) | (temp[1] << 16) | (temp[2] << 8) | temp[3]
Octets(temp) == <<temp[1] * 256 + temp[2], temp[3] * 256 + temp[4]>>

\* (uint64_t)1 << (32 - netmask)
SubnetSize(n) == Shl1(32 - n)

\* ip = (octets) & ~(((uint64_t)1 << (32 - netmask)) - 1), stored in a uint32_t
MaskedIp(temp, n) ==
  And32(Octets(temp), Not32(WSub(SubnetSize(n), Word(1))))

NetmaskTooBig(n) == n > 32

CheckSubnet ==
  /\ pc = "subnet"
  /\ IF ~argv.subnet.ok
       THEN Reject("bad_subnet") /\ UNCHANGED <<ip, netmask>>
     ELSE IF NetmaskTooBig(argv.subnet.val.netmask)
       THEN /\ Reject("bad_netmask")
            /\ netmask' = argv.subnet.val.netmask
            /\ UNCHANGED ip
     ELSE /\ Pass("num_req")
          /\ netmask' = argv.subnet.val.netmask
          /\ ip' = MaskedIp(argv.subnet.val.temp, argv.subnet.val.netmask)
  /\ UNCHANGED <<argv, divByZero, num_req, num_burst, num_thread, burst_delay,
                 run>>

\* num_req > ((uint64_t)1 << (32 - netmask))
TooManyRequests(req, n) == WLess(SubnetSize(n), Word(req))

CheckNumReq ==
  /\ pc = "num_req"
  /\ IF ~argv.req.ok
       THEN Reject("bad_num_req") /\ UNCHANGED num_req
     ELSE IF TooManyRequests(argv.req.val, netmask)
       THEN Reject("too_many_requests") /\ num_req' = argv.req.val
     ELSE Pass("burst") /\ num_req' = argv.req.val
  /\ UNCHANGED <<argv, divByZero, ip, netmask, num_burst, num_thread,
                 burst_delay, run>>

CheckBurst ==
  /\ pc = "burst"
  /\ IF argv.burst.ok
       THEN Pass("thread") /\ num_burst' = argv.burst.val
       ELSE Reject("bad_burst") /\ UNCHANGED num_burst
  /\ UNCHANGED <<argv, divByZero, ip, netmask, num_req, num_thread,
                 burst_delay, run>>

CheckThread ==
  /\ pc = "thread"
  /\ IF argv.thread.ok
       THEN Pass("sanity") /\ num_thread' = argv.thread.val
       ELSE Reject("bad_thread") /\ UNCHANGED num_thread
  /\ UNCHANGED <<argv, divByZero, ip, netmask, num_req, num_burst,
                 burst_delay, run>>

\* num_thread * num_burst in uint32_t
Divisor(nt, nb) == Mul32(Word(nt), Word(nb))

\* num_req % (num_thread * num_burst) != 0, for a non-zero divisor
NotDivisible(req, nt, nb) == WMod(Word(req), Divisor(nt, nb)) # Zero

\* The sanity check of line 110.  With a zero divisor the % is undefined
\* behaviour: the build traps (SIGFPE, x86) or yields the dividend as the
\* remainder (AArch64, RISC-V).
SanityCheck ==
  /\ pc = "sanity"
  /\ IF Divisor(num_thread, num_burst) # Zero
       THEN /\ IF NotDivisible(num_req, num_thread, num_burst)
                 THEN Reject("not_divisible")
                 ELSE Pass("num_port")
            /\ UNCHANGED divByZero
       ELSE /\ divByZero' = TRUE
            /\ \/ pc' = "trapped" /\ UNCHANGED <<status, diag>>
               \/ IF num_req # 0 THEN Reject("not_divisible")
                                 ELSE Pass("num_port")
  /\ UNCHANGED <<argv, locals, run>>

CheckNumPort ==
  /\ pc = "num_port"
  /\ IF argv.nport.ok THEN Pass("delay") ELSE Reject("bad_num_port")
  /\ UNCHANGED <<argv, divByZero, locals, run>>

CheckDelay ==
  /\ pc = "delay"
  /\ IF argv.delay.ok
       THEN Pass("timeout") /\ burst_delay' = argv.delay.val
       ELSE Reject("bad_delay") /\ UNCHANGED burst_delay
  /\ UNCHANGED <<argv, divByZero, ip, netmask, num_req, num_burst,
                 num_thread, run>>

CheckTimeout ==
  /\ pc = "timeout"
  /\ IF argv.timeout.ok THEN Pass("reference") ELSE Reject("bad_timeout")
  /\ UNCHANGED <<argv, divByZero, locals, run>>

(***************************************************************************)
(* Construction: lines 137 - 147.                                          *)
(***************************************************************************)
\* std::chrono::seconds(2) in ns
TwoSeconds == 2000000000

\* readings of high_resolution_clock::now(), in ns
NowSamples == {1000}

TakeReference ==
  /\ pc = "reference"
  /\ \E now \in NowSamples : reference_time' = now + TwoSeconds
  /\ i' = 0
  /\ pc' = "construct"
  /\ UNCHANGED <<argv, status, diag, divByZero, locals, testers, threads,
                 errlog, touched, mainTouched, report, failure>>

\* a variant of Deadline: multiply first, then divide
DeadlineMultiplyFirst(ref, d, nt, k) == ref + (k * d) \div nt

\* reference_time + std::chrono::nanoseconds{burst_delay / num_thread} * i
Deadline(ref, d, nt, k) == ref + (d \div nt) * k

\* A DnsTester as its constructor leaves it.
NewTester(k) ==
  [ id       |-> k,
    deadline |-> Deadline(reference_time, burst_delay, num_thread, k),
    st       |-> "Constructed",
    starts   |-> 0,
    bursts   |-> 0,
    recs     |-> <<>> ]

ConstructLoopDone(k, nt) == k >= nt

ConstructTester ==
  /\ pc = "construct"
  /\ ~ConstructLoopDone(i, num_thread)
  /\ testers' = Append(testers, NewTester(i))
  /\ i' = i + 1
  /\ UNCHANGED <<argv, pc, status, diag, divByZero, locals, reference_time,
                 threads, errlog, touched, mainTouched, report, failure>>

\* The constructor throws (socket setup failure).  The loop is outside the
\* try block of line 148, so the exception leaves main: std::terminate.
ConstructThrows ==
  /\ pc = "construct"
  /\ ~ConstructLoopDone(i, num_thread)
  /\ failure' = "constructor_threw"
  /\ pc' = "terminated"
  /\ UNCHANGED <<argv, status, diag, divByZero, locals, reference_time, i,
                 testers, threads, errlog, touched, mainTouched, report>>

ConstructDone ==
  /\ pc = "construct"
  /\ ConstructLoopDone(i, num_thread)
  /\ pc' = "spawn"
  /\ i' = 0
  /\ UNCHANGED <<argv, status, diag, divByZero, locals, reference_time,
                 testers, threads, errlog, touched, mainTouched, report,
                 failure>>

(***************************************************************************)
(* Starting the threads: lines 149 - 162.                                  *)
(***************************************************************************)
\* what pthread_setaffinity_np returns: 0, or an errno (EINVAL)
AffinityResults == {0, 22}

\* CPU_SET(num_thread + i, &cpuset)
CoreOf(nt, k) == nt + k

\* lines 158 - 161: the result is printed, nothing else
AffinityMessage(rc, k, nt) ==
  IF rc # 0 THEN [msg |-> "affinity_error", args |-> <<rc>>]
            ELSE [msg |-> "pinned", args |-> <<k, CoreOf(nt, k)>>]

\* a variant of AfterAffinity: a failed call is thrown to the handler
AfterAffinityFatal(rc) == IF rc # 0 THEN "catch" ELSE "spawn"

\* where main goes after the affinity call
AfterAffinity(rc) == "spawn"

SpawnThread ==
  /\ pc = "spawn"
  /\ i < num_thread
  /\ \E rc \in AffinityResults :
       /\ threads' = Append(threads,
            [st |-> "ready", tgt |-> i, core |-> CoreOf(num_thread, i),
             rc |-> rc])
       /\ errlog' = Append(errlog, AffinityMessage(rc, i, num_thread))
       /\ pc' = AfterAffinity(rc)
       /\ failure' = IF AfterAffinity(rc) = "catch" THEN "affinity" ELSE failure
  /\ i' = i + 1
  /\ UNCHANGED <<argv, status, diag, divByZero, locals, reference_time,
                 testers, touched, mainTouched, report>>

\* std::thread's constructor throws std::system_error (no thread could be
\* started): inside the try block, so the handler of line 169 is entered
SpawnThrows ==
  /\ pc = "spawn"
  /\ i < num_thread
  /\ failure' = "thread_create_failed"
  /\ pc' = "catch"
  /\ UNCHANGED <<argv, status, diag, divByZero, locals, reference_time, i,
                 testers, threads, errlog, touched, mainTouched, report>>

SpawnDone ==
  /\ pc = "spawn"
  /\ i >= num_thread
  /\ pc' = "join"
  /\ i' = 0
  /\ UNCHANGED <<argv, status, diag, divByZero, locals, reference_time,
                 testers, threads, errlog, touched, mainTouched, report,
                 failure>>

(***************************************************************************)
(* The thread bodies: [&, i]() { testers[i]->start(); }  (line 150).       *)
(* Threads and testers are numbered from 0; the sequences from 1.          *)
(***************************************************************************)
Alive == pc \notin {"exited", "trapped", "terminated"}

ThreadIds == 0 .. Len(threads) - 1

\* a variant of Captured: i captured by reference, read when the thread runs
CapturedByReference(t) == IF i < num_thread THEN i ELSE num_thread - 1

\* the index the lambda of thread t uses: i is captured by value
Captured(t) == t

Running(t) == Alive /\ t \in ThreadIds /\ threads[t + 1].st = "running"

Tester(t) == testers[threads[t + 1].tgt + 1]

SetTester(t, new) == [testers EXCEPT ![threads[t + 1].tgt + 1] = new]

\* the share of one Worker: total / thread_count
Partition == num_req \div num_thread

\* the bursts assigned to one Worker, burst_size queries each
AssignedBursts == IF Partition = 0 THEN 0 ELSE Partition \div num_burst

\* the global sequence number of a Worker's k-th record (k from 1)
SeqOf(w, k) == w * Partition + (k - 1)

\* AddressCursor: base + i
TargetAddr(n) == Trunc32(WAdd(ip, Word(n)))

\* the thread starts and calls start() on its tester: Idle
ThreadRunAt(t) ==
  /\ Alive
  /\ t \in ThreadIds
  /\ threads[t + 1].st = "ready"
  /\ LET w == Captured(t)
     IN  /\ threads' = [threads EXCEPT ![t + 1].st = "running",
                                       ![t + 1].tgt = w]
         /\ testers' = [testers EXCEPT ![w + 1].st = "Idle",
                                       ![w + 1].starts = @ + 1]
         /\ touched' = touched \cup {<<t, w>>}
  /\ UNCHANGED <<argv, pc, status, diag, divByZero, locals, reference_time,
                 i, errlog, mainTouched, report, failure>>

\* start() throws on its thread: nothing catches it there, std::terminate
StartThrowsAt(t) ==
  /\ Alive
  /\ t \in ThreadIds
  /\ threads[t + 1].st = "ready"
  /\ failure' = "start_threw"
  /\ pc' = "terminated"
  /\ UNCHANGED <<argv, status, diag, divByZero, locals, reference_time, i,
                 testers, threads, errlog, touched, mainTouched, report>>

WorkerStep(t, new) ==
  /\ testers' = SetTester(t, new)
  /\ touched' = touched \cup {<<t, threads[t + 1].tgt>>}
  /\ UNCHANGED <<argv, pc, status, diag, divByZero, locals, reference_time,
                 i, errlog, mainTouched, report, failure>>

\* Sending -> Draining is taken as soon as the last burst has been sent
AfterBurst(sent) == IF sent >= AssignedBursts THEN "Draining" ELSE "Sending"

\* Idle -> Sending: the start deadline is reached
BeginSendingAt(t) ==
  /\ Running(t)
  /\ Tester(t).st = "Idle"
  /\ WorkerStep(t, [Tester(t) EXCEPT !.st = AfterBurst(0)])
  /\ UNCHANGED threads

\* one burst: burst_size queries back to back, each recorded as Pending
SendBurstAt(t) ==
  /\ Running(t)
  /\ Tester(t).st = "Sending"
  /\ Tester(t).bursts < AssignedBursts
  /\ WorkerStep(t, [Tester(t) EXCEPT
                      !.st = AfterBurst(Tester(t).bursts + 1),
                      !.bursts = @ + 1,
                      !.recs = @ \o [k \in 1 .. num_burst |-> "Pending"]])
  /\ UNCHANGED threads

\* a response matching a Pending record: Answered
ReceiveAt(t) ==
  /\ Running(t)
  /\ Tester(t).st \in {"Sending", "Draining"}
  /\ \E k \in 1 .. Len(Tester(t).recs) :
       /\ Tester(t).recs[k] = "Pending"
       /\ WorkerStep(t, [Tester(t) EXCEPT !.recs[k] = "Answered"])
  /\ UNCHANGED threads

\* what Draining leaves of a record when the timeout has elapsed
Finalize(r) == IF r = "Pending" THEN "TimedOut" ELSE r

\* Draining -> Done: nothing is Pending any more, or the timeout elapsed and
\* every remaining Pending record is TimedOut.  start() returns and the
\* thread function ends.
FinishStartAt(t) ==
  /\ Running(t)
  /\ Tester(t).st = "Draining"
  /\ WorkerStep(t, [Tester(t) EXCEPT
       !.st = "Done",
       !.recs = [k \in 1 .. Len(@) |-> Finalize(@[k])]])
  /\ threads' = [threads EXCEPT ![t + 1].st = "finished"]

ThreadRun == \E t \in ThreadIds : ThreadRunAt(t)

StartThrows == \E t \in ThreadIds : StartThrowsAt(t)

BeginSending == \E t \in ThreadIds : BeginSendingAt(t)

SendBurst == \E t \in ThreadIds : SendBurstAt(t)

Receive == \E t \in ThreadIds : ReceiveAt(t)

FinishStart == \E t \in ThreadIds : FinishStartAt(t)

(***************************************************************************)
(* Join and report: lines 163 - 172.                                       *)
(***************************************************************************)
\* a variant of JoinLoopDone: the last thread is not joined
JoinLoopOffByOne(k, nt) == k + 1 >= nt

\* for (uint32_t i = 0; i < num_thread; i++) threads[i].join();
JoinLoopDone(k, nt) == k >= nt

AllJoined == \A t \in ThreadIds : threads[t + 1].st = "joined"

\* threads[i].join() returns once thread i has ended
JoinThread ==
  /\ pc = "join"
  /\ ~JoinLoopDone(i, num_thread)
  /\ threads[i + 1].st = "finished"
  /\ threads' = [threads EXCEPT ![i + 1].st = "joined"]
  /\ i' = i + 1
  /\ UNCHANGED <<argv, pc, status, diag, divByZero, locals, reference_time,
                 testers, errlog, touched, mainTouched, report, failure>>

JoinDone ==
  /\ pc = "join"
  /\ JoinLoopDone(i, num_thread)
  /\ pc' = "aggregate"
  /\ UNCHANGED <<argv, status, diag, divByZero, locals, run>>

\* DnsTesterAggregator aggregator(testers): reads every tester
Aggregate ==
  /\ pc = "aggregate"
  /\ report' = Append(report, "aggregator")
  /\ mainTouched' = (mainTouched \/ (testers # <<>> /\ ~AllJoined))
  /\ pc' = "display"
  /\ UNCHANGED <<argv, status, diag, divByZero, locals, reference_time, i,
                 testers, threads, errlog, touched, failure>>

Display ==
  /\ pc = "display"
  /\ report' = Append(report, "display")
  /\ pc' = "write"
  /\ UNCHANGED <<argv, status, diag, divByZero, locals, reference_time, i,
                 testers, threads, errlog, touched, mainTouched, failure>>

Write ==
  /\ pc = "write"
  /\ report' = Append(report, "write")
  /\ pc' = "return"
  /\ UNCHANGED <<argv, status, diag, divByZero, locals, reference_time, i,
                 testers, threads, errlog, touched, mainTouched, failure>>

\* write() fails with an I/O error: the exception reaches line 169
WriteThrows ==
  /\ pc = "write"
  /\ failure' = "io_error"
  /\ pc' = "catch"
  /\ UNCHANGED <<argv, status, diag, divByZero, locals, reference_time, i,
                 testers, threads, errlog, touched, mainTouched, report>>

\* catch (std::exception &e): print e.what() and fall through to return 0
Catch ==
  /\ pc = "catch"
  /\ pc' = "return"
  /\ UNCHANGED <<argv, status, diag, divByZero, locals, run>>

\* return 0.  Destroying a std::thread that is still joinable terminates.
Return ==
  /\ pc = "return"
  /\ IF AllJoined THEN pc' = "exited" /\ status' = 0
                  ELSE pc' = "terminated" /\ UNCHANGED status
  /\ UNCHANGED <<argv, diag, divByZero, locals, run>>

Next ==
  \/ CheckArgc
  \/ CheckServer
  \/ CheckPort
  \/ CheckSubnet
  \/ CheckNumReq
  \/ CheckBurst
  \/ CheckThread
  \/ SanityCheck
  \/ CheckNumPort
  \/ CheckDelay
  \/ CheckTimeout
  \/ TakeReference
  \/ ConstructTester
  \/ ConstructThrows
  \/ ConstructDone
  \/ SpawnThread
  \/ SpawnThrows
  \/ SpawnDone
  \/ ThreadRun
  \/ StartThrows
  \/ BeginSending
  \/ SendBurst
  \/ Receive
  \/ FinishStart
  \/ JoinThread
  \/ JoinDone
  \/ Aggregate
  \/ Display
  \/ Write
  \/ WriteThrows
  \/ Catch
  \/ Return

Spec == Init /\ [][Next]_vars

(***************************************************************************)
(* Vocabulary of the properties.                                           *)
(***************************************************************************)
Terminal == pc \in {"exited", "trapped", "terminated"}

\* main is past the validation of lines 49 - 135
Validated ==
  \/ pc \in {"reference", "construct", "spawn", "join", "aggregate",
             "display", "write", "catch", "return", "terminated"}
  \/ (pc = "exited" /\ status = 0)

\* the join loop of lines 163 - 165 has completed
AfterJoins ==
  \/ pc \in {"aggregate", "display", "write"}
  \/ report # <<>>

TesterIds == 0 .. Len(testers) - 1

FullReport == <<"aggregator", "display", "write">>

\* the records of all testers: <<w, k>> is the k-th record of tester w
Records == {wk \in TesterIds \X (1 .. MaxReq + 1) : wk[2] <= Len(testers[wk[1] + 1].recs)}

RecordsIn(st) == {wk \in Records : testers[wk[1] + 1].recs[wk[2]] = st}

\* some validation check of lines 49 - 135 fails on the argument vector v
CheckFails(v) ==
  \/ BadFields(v) # {}
  \/ NetmaskTooBig(v.subnet.val.netmask)
  \/ TooManyRequests(v.req.val, v.subnet.val.netmask)
  \/ /\ Divisor(v.thread.val, v.burst.val) # Zero
     /\ NotDivisible(v.req.val, v.thread.val, v.burst.val)

\* r is a multiple of nt * nb, the product taken in the integers
MathMultiple(r, nt, nb) ==
  IF nt = 0 \/ nb = 0 \/ MulOverflows(Word(nt), Word(nb))
    THEN r = 0
    ELSE WMod(Word(r), Mul32(Word(nt), Word(nb))) = Zero

\* the low 32 - netmask bits of a are zero
HostBitsClear(a) == And32(a, WSub(SubnetSize(netmask), Word(1))) = Zero

\* a and b agree on the leading netmask bits
SameSubnet(a, b) ==
  And32(a, Not32(WSub(SubnetSize(netmask), Word(1)))) =
  And32(b, Not32(WSub(SubnetSize(netmask), Word(1))))

(***************************************************************************)
(* C1.  Every argument vector on which a validation check fails makes main *)
(* print a diagnostic and return a non-zero status, and no DnsTester is    *)
(* constructed and no thread started in that execution.                    *)
(* Stated as claimed; refuted by a vector with thread count 0 and an       *)
(* unparsable ports-per-thread field: line 110 divides by zero before line *)
(* 117 is reached, and a trapping build ends without diagnostic or return. *)
(***************************************************************************)
C1_RejectionClaim ==
  CheckFails(argv) =>
    /\ testers = <<>>
    /\ threads = <<>>
    /\ ~Validated
    /\ Terminal => (pc = "exited" /\ diag # "none" /\ status # 0)

(***************************************************************************)
(* C2.  For every accepted configuration, once all threads are joined the  *)
(* Answered and TimedOut records of all testers together number num_req    *)
(* (and no record is left Pending).                                        *)
(* Stated as claimed; refuted by 3 threads, burst size 1431655766 and 4    *)
(* requests, which line 110 accepts because the uint32_t product wraps.    *)
(***************************************************************************)
C2_AllQueriesFinalizedClaim ==
  AfterJoins =>
    /\ RecordsIn("Pending") = {}
    /\ Cardinality(RecordsIn("Answered")) + Cardinality(RecordsIn("TimedOut"))
         = num_req

(***************************************************************************)
(* C3.  For every accepted configuration the base address has its host     *)
(* bits cleared, the addresses base + n, n < num_req, are pairwise         *)
(* distinct, do not wrap and lie in the subnet, and each is the target of  *)
(* exactly one query of the testers taken together.                        *)
(* Stated as claimed; refuted, in its last part only, by the configuration *)
(* of C2, where the testers send fewer than num_req queries.               *)
(***************************************************************************)
C3_AddressCursorClaim ==
  Validated =>
    /\ HostBitsClear(ip)
    /\ \A n \in 0 .. num_req - 1 :
         /\ WLess(WAdd(ip, Word(n)), Shl1(32))
         /\ SameSubnet(TargetAddr(n), Octets(argv.subnet.val.temp))
         /\ \A m \in 0 .. num_req - 1 :
              TargetAddr(m) = TargetAddr(n) => m = n
    /\ AfterJoins =>
         \A n \in 0 .. num_req - 1 :
           Cardinality({wk \in Records :
              TargetAddr(SeqOf(wk[1], wk[2])) = TargetAddr(n)}) = 1

(***************************************************************************)
(* C4.  The aggregator is constructed, then display() and then write() are *)
(* run, only after every thread has been joined: whenever the aggregator   *)
(* exists no tester's start() is still executing.                          *)
(***************************************************************************)
C4_AggregateAfterJoin ==
  /\ \E n \in 0 .. 3 : report = SubSeq(FullReport, 1, n)
  /\ (report # <<>> \/ pc \in {"display", "write"}) =>
       /\ Len(threads) = num_thread
       /\ AllJoined
       /\ \A w \in TesterIds : testers[w + 1].st = "Done"

C4_Witness ==
  /\ report = FullReport
  /\ num_thread >= 2
  /\ RecordsIn("Answered") # {}
  /\ RecordsIn("TimedOut") # {}

(***************************************************************************)
(* C5.  While threads run, tester w is operated on by thread w only: all   *)
(* testers are constructed before the first thread is started and the      *)
(* vector is not changed afterwards, thread t calls start() on tester t    *)
(* and on no other, start() is called at most once per tester and exactly  *)
(* once by the time the threads are joined, and main reads no tester       *)
(* before the joins.                                                       *)
(***************************************************************************)
C5_ThreadConfinement ==
  /\ threads # <<>> =>
       /\ Len(testers) = num_thread
       /\ \A w \in TesterIds : testers[w + 1].id = w
  /\ \A tw \in touched : tw[1] = tw[2]
  /\ \A t \in ThreadIds : threads[t + 1].tgt = t
  /\ ~mainTouched
  /\ \A w \in TesterIds : testers[w + 1].starts <= 1
  /\ AfterJoins => \A w \in TesterIds : testers[w + 1].starts = 1

C5_Witness ==
  /\ AfterJoins
  /\ num_thread = 3
  /\ touched = {<<0, 0>>, <<1, 1>>, <<2, 2>>}
  /\ RecordsIn("Answered") # {}

C7_DivisibilityClaim ==
  Validated => MathMultiple(num_req, num_thread, num_burst)

(***************************************************************************)
(* C8.  If a tester fails fatally (its constructor throws, or start()      *)
(* throws on its thread) the error reaches main's handler of line 169 and  *)
(* neither display() nor write() is run.                                   *)
(* Stated as claimed; refuted in its first part: neither exception can     *)
(* reach the handler, the process ends in std::terminate (shown on          *)
(* executions that never divide by zero).                                  *)
(***************************************************************************)
C8_FailureReachesHandlerClaim ==
  (~divByZero /\ failure \in {"constructor_threw", "start_threw"}) =>
    /\ pc \in {"catch", "return", "exited"}
    /\ report = <<>>

(***************************************************************************)
(* C9.  Pinning is best effort: thread t is asked onto core                *)
(* num_thread + t (pairwise distinct cores), the result of the affinity    *)
(* call is only logged, a failed call never reaches the handler or stops   *)
(* the loop, all num_thread threads are started before the joins, and a    *)
(* run without other failure ends with all threads joined and the report   *)
(* displayed and written, whatever subset of the calls failed.             *)
(***************************************************************************)
C9_PinningBestEffort ==
  /\ \A t \in ThreadIds : threads[t + 1].core = num_thread + t
  /\ \A t, u \in ThreadIds :
       threads[t + 1].core = threads[u + 1].core => t = u
  /\ Len(errlog) = Len(threads)
  /\ \A t \in ThreadIds :
       errlog[t + 1].msg =
         IF threads[t + 1].rc # 0 THEN "affinity_error" ELSE "pinned"
  /\ pc = "catch" => failure \in {"io_error", "thread_create_failed"}
  /\ pc \in {"join", "aggregate", "display", "write"} =>
       Len(threads) = num_thread
  /\ (pc = "exited" /\ status = 0 /\ failure = "none") =>
       /\ Len(threads) = num_thread
       /\ AllJoined
       /\ report = FullReport

C9_Witness ==
  /\ ~divByZero
  /\ RecordsIn("Answered") # {}
  /\ pc = "exited"
  /\ status = 0
  /\ report = FullReport
  /\ num_thread = 3
  /\ \E t, u \in ThreadIds : threads[t + 1].rc # 0 /\ threads[u + 1].rc = 0

(***************************************************************************)
(* C10.  With thread count 0 or burst size 0, main ends in validation: it  *)
(* prints the divisibility diagnostic and returns non-zero without         *)
(* evaluating a modulo by zero, and does not reach construction.           *)
(* Stated as claimed, for the vectors that pass the checks before line     *)
(* 110; refuted there: line 110 evaluates num_req % 0.                     *)
(***************************************************************************)
C10_ZeroDivisorClaim ==
  ( /\ argv.thread.ok /\ argv.burst.ok
    /\ (argv.thread.val = 0 \/ argv.burst.val = 0)
    /\ pc \notin {"argc", "server", "port", "subnet", "num_req", "burst",
                  "thread", "sanity"}
    /\ diag \in {"none", "not_divisible"} ) =>
    /\ ~divByZero
    /\ ~Validated
    /\ pc = "exited" /\ diag = "not_divisible" /\ status # 0

(***************************************************************************)
(* Further invariants of the launcher, checked with the above.             *)
(***************************************************************************)
TypeOK ==
  /\ pc \in {"argc", "server", "port", "subnet", "num_req", "burst",
             "thread", "sanity", "num_port", "delay", "timeout", "reference",
             "construct", "spawn", "join", "aggregate", "display", "write",
             "catch", "return", "exited", "trapped", "terminated"}
  /\ status \in {0, 0 - 1}
  /\ Len(testers) <= num_thread
  /\ Len(threads) <= Len(testers)
  /\ \A w \in TesterIds :
       testers[w + 1].st \in {"Constructed", "Idle", "Sending", "Draining", "Done"}

\* a validation diagnostic means return -1 with nothing constructed, and
\* nothing is constructed for a vector on which a check fails
RejectionPrecedesWorkers ==
  /\ diag # "none" =>
       pc = "exited" /\ status = 0 - 1 /\ testers = <<>> /\ threads = <<>>
  /\ CheckFails(argv) => testers = <<>> /\ threads = <<>> /\ ~Validated

\* the address part of C3, and: no two queries sent share a target
AddressCursorLemma ==
  Validated =>
    /\ HostBitsClear(ip)
    /\ \A n \in 0 .. num_req - 1 :
         /\ WLess(WAdd(ip, Word(n)), Shl1(32))
         /\ SameSubnet(TargetAddr(n), Octets(argv.subnet.val.temp))
         /\ \A m \in 0 .. num_req - 1 :
              TargetAddr(m) = TargetAddr(n) => m = n
    /\ \A wk \in Records : SeqOf(wk[1], wk[2]) < num_req
    /\ \A wk, xl \in Records :
         SeqOf(wk[1], wk[2]) = SeqOf(xl[1], xl[2]) => wk = xl

\* a failed tester never leaves a report behind
NoReportAfterWorkerFailure ==
  failure \in {"constructor_threw", "start_threw"} =>
    pc = "terminated" /\ report = <<>>

\* with a non-wrapping, non-zero divisor the counts add up
CountsAddUpWithoutWrap ==
  ( /\ AfterJoins
    /\ num_thread # 0 /\ num_burst # 0
    /\ ~MulOverflows(Word(num_thread), Word(num_burst)) ) =>
    /\ RecordsIn("Pending") = {}
    /\ Cardinality(RecordsIn("Answered")) + Cardinality(RecordsIn("TimedOut"))
         = num_req

====
